---------------------------- MODULE Spec2Model ----------------------------
(***************************************************************************)
(* Model of the event durability and delivery pipeline of the Axyle SDK:   *)
(* Storage (the persisted events queue), EventQueue (enqueue, flush, the   *)
(* periodic timer, shutdown) and Transport (batching, retry, backoff).     *)
(*                                                                         *)
(* JavaScript runs one call chain at a time and switches only at an await. *)
(* Every action below is the code between two awaits of one async call     *)
(* chain; the chains are the elements of Procs.  An event is identified    *)
(* by its id (generateUUID gives every event a fresh one).                 *)
(***************************************************************************)
EXTENDS Integers, Sequences, FiniteSets, TLC

(***************************************************************************)
(* Bounds of the model.                                                    *)
(***************************************************************************)
\* Number of async call chains that can be in flight at once.
NumProcs == 2
\* Number of events created over a run.
MaxEvents == 3
\* DEFAULT_CONFIG.maxQueueSize is 100; scaled so that the capacity trigger fires.
maxQueueSize == 2
\* MAX_EVENTS_PER_BATCH is 100; scaled so that a queue splits into batches.
MAX_EVENTS_PER_BATCH == 2
\* MAX_BATCH_SIZE is 500KB; scaled, in the unit of getObjectSize below.
MAX_BATCH_SIZE == 3
\* Largest attempt number calculateBackoff is applied to.
MaxAttempt == 6
\* DEFAULT_CONFIG.sessionTimeout is 30 minutes; scaled, in ticks of the clock.
sessionTimeout == 2
\* The last tick of the clock.
MaxTime == 3
\* Calls of the public API after init() over a run.
MaxCalls == 2
\* Nested track() calls the call stack of the engine holds; beyond it a call
\* raises RangeError (thousands in a real engine).
StackDepth == 2
\* MAX_EVENT_SIZE is 32KB; scaled, in the unit of getObjectSize below.
MAX_EVENT_SIZE == 2

(***************************************************************************)
(* Program constants: RETRY_CONFIG.                                        *)
(***************************************************************************)
maxRetries == 3
initialDelay == 1000
maxDelay == 32000
backoffMultiplier == 2

Procs == 1..NumProcs
EventIds == 1..MaxEvents

\* Outcomes of one fetch: 0 stands for a network failure (fetch rejects),
\* any other value is the HTTP status of the response.
NetworkFailure == 0
Statuses == {NetworkFailure, 200, 299, 300, 400, 499, 500}

VARIABLES
    phase,       \* lifecycle of the process: "down", "init", "up", "stopping", "shut"
    flushTimer,  \* EventQueue.flushTimer is set
    isFlushing,  \* EventQueue.isFlushing
    store,       \* the persisted events queue (AsyncStorage, EVENTS_QUEUE key)
    nextId,      \* the next fresh event id
    procs,       \* the async call chains: position and local variables
    written,     \* history: ids whose addEventToQueue write has completed
    acked,       \* history: ids of batches answered 2xx
    calc,        \* the inputs and the result of calculateBackoff
    size,        \* the serialized size of every event, by id
    tx,          \* one call of Transport.sendBatch: its input, position and history
    sdk          \* AxyleClient with its SessionManager, the durable store, the clock

queueVars == <<phase, flushTimer, isFlushing, store, nextId, procs, written, acked>>
pipelineVars == <<queueVars, calc, size, tx>>
vars == <<phase, flushTimer, isFlushing, store, nextId, procs, written, acked, calc,
          size, tx, sdk>>

(***************************************************************************)
(* Helpers.                                                                *)
(***************************************************************************)
Range(s) == {s[i] : i \in 1..Len(s)}

Min(a, b) == IF a <= b THEN a ELSE b

RECURSIVE Pow(_, _)
Pow(b, n) == IF n = 0 THEN 1 ELSE b * Pow(b, n - 1)

\* A call chain that is not running, and the initial value of its locals.
Idle == [pc |-> "idle", op |-> "none", event |-> 0, snap |-> <<>>, events |-> <<>>,
         bi |-> 0, attempt |-> 0, sentEventIds |-> <<>>,
         requests |-> 0, last |-> "none", rejected |-> {}, dirty |-> FALSE,
         readFault |-> FALSE]

NoCalc == [attempt |-> 0, initialDelay |-> 0, maxDelay |-> 0, multiplier |-> 0,
           delay |-> -1, prev |-> -1]

\* No session: SessionManager.currentSession is null, no record is persisted.
NoSession == [sessionId |-> 0, startTime |-> 0, lastActivityTime |-> 0]

\* The properties of an event that the model keeps: previousUserId of User
\* Identified, and the serialized size the properties give the event.
\* identified and calls are history: the user id identify() was called with
\* and the number of API calls made up to that call.
NoProperties == [previousUserId |-> "", identified |-> "", size |-> 1, calls |-> 0]

NoEvent == [id |-> 0, name |-> "", userId |-> "", anonymousId |-> "", sessionId |-> 0,
            properties |-> NoProperties]

\* A call chain of the client, and the initial value of its locals.
NoTask == [op |-> "none", pc |-> "none", name |-> "", sessionId |-> 0, flag |-> FALSE,
           saved |-> NoSession, event |-> NoEvent, snap |-> <<>>, micro |-> FALSE,
           expired |-> 0, resumed |-> FALSE, properties |-> NoProperties,
           started |-> 0]

\* The client after construction, in a process whose durable store is empty.
NoSdk == [phase |-> "down", apiKey |-> TRUE, isInitialized |-> FALSE,
          isOptedOut |-> FALSE, userId |-> "", anonymousId |-> "", queue |-> FALSE,
          sessionAnalytics |-> -1, currentSession |-> NoSession,
          disk |-> [optOut |-> FALSE, userId |-> "", anonymousId |-> "",
                    session |-> NoSession, queue |-> <<>>],
          now |-> 1, tasks |-> <<>>, log |-> <<>>, nextSessionId |-> 2,
          nextEventId |-> 1, calls |-> 0, call |-> "none", optedOut |-> FALSE,
          resumed |-> FALSE, event |-> NoEvent, callbacksThrow |-> FALSE]

\* No call of sendBatch on its own, and the initial value of its locals.
NoTx == [pc |-> "none", events |-> <<>>, batches |-> <<>>, bi |-> 0, attempt |-> 0,
         sentEventIds |-> <<>>, requests |-> 0, tried |-> {}, okIds |-> {},
         failed |-> FALSE]

(***************************************************************************)
(* utils: getObjectSize, calculateBackoff.                                 *)
(***************************************************************************)
\* The serialized size of an event, a function of its content.
getObjectSize(e) == size[e]

\* The sizes of the events that go through the queue: track() has checked them
\* against MAX_EVENT_SIZE, they are 1 and 2.
QueuedSizes == [e \in EventIds |-> 1 + (e % 2)]

\* Faulty variant: the larger of the two instead of the smaller.
calculateBackoff_Max(attempt, initial, max, multiplier) ==
    LET delay == initial * Pow(multiplier, attempt)
    IN  IF delay >= max THEN delay ELSE max

calculateBackoff(attempt, initial, max, multiplier) ==
    LET delay == initial * Pow(multiplier, attempt)
    IN  Min(delay, max)

(***************************************************************************)
(* Transport.createBatches: greedy split by count and by byte size.        *)
(***************************************************************************)
\* Faulty variant: the count ceiling is tested one event too late.
RECURSIVE BatchLoop_Count(_, _, _, _)
BatchLoop_Count(events, batches, currentBatch, currentBatchSize) ==
    IF events = <<>>
    THEN IF Len(currentBatch) > 0 THEN Append(batches, currentBatch) ELSE batches
    ELSE LET event == Head(events)
             eventSize == getObjectSize(event)
         IN  IF \/ Len(currentBatch) > MAX_EVENTS_PER_BATCH
                \/ currentBatchSize + eventSize > MAX_BATCH_SIZE
             THEN BatchLoop_Count(Tail(events),
                                  IF Len(currentBatch) > 0
                                  THEN Append(batches, currentBatch) ELSE batches,
                                  <<event>>, eventSize)
             ELSE BatchLoop_Count(Tail(events), batches,
                                  Append(currentBatch, event),
                                  currentBatchSize + eventSize)

RECURSIVE BatchLoop(_, _, _, _)
BatchLoop(events, batches, currentBatch, currentBatchSize) ==
    IF events = <<>>
    THEN IF Len(currentBatch) > 0 THEN Append(batches, currentBatch) ELSE batches
    ELSE LET event == Head(events)
             eventSize == getObjectSize(event)
         IN  IF \/ Len(currentBatch) >= MAX_EVENTS_PER_BATCH
                \/ currentBatchSize + eventSize > MAX_BATCH_SIZE
             THEN BatchLoop(Tail(events),
                            IF Len(currentBatch) > 0
                            THEN Append(batches, currentBatch) ELSE batches,
                            <<event>>, eventSize)
             ELSE BatchLoop(Tail(events), batches,
                            Append(currentBatch, event), currentBatchSize + eventSize)

\* Faulty variant: every event in a batch of its own.
createBatches_PerEvent(events) == [i \in 1..Len(events) |-> <<events[i]>>]

\* Faulty variant: an event larger than MAX_BATCH_SIZE is left out.
createBatches_DropsOversized(events) ==
    BatchLoop(SelectSeq(events, LAMBDA e : getObjectSize(e) <= MAX_BATCH_SIZE),
              <<>>, <<>>, 0)

createBatches(events) == BatchLoop(events, <<>>, <<>>, 0)

(***************************************************************************)
(* Transport.sendBatchWithRetry: classification of one fetch outcome.      *)
(***************************************************************************)
ResponseOk(status) == status >= 200 /\ status <= 299

\* Faulty variant: 400 itself is not taken for a client error.
IsClientError_Off(status) == status > 400 /\ status < 500

IsClientError(status) == status >= 400 /\ status < 500

Classify(status) ==
    IF status = NetworkFailure THEN "retry"
    ELSE IF ResponseOk(status) THEN "ok"
    ELSE IF IsClientError(status) THEN "client"
    ELSE "retry"

\* History only: what the collector answered, read off the status itself.
StatusClass(status) ==
    IF status = NetworkFailure THEN "other"
    ELSE IF status \div 100 = 2 THEN "2xx"
    ELSE IF status \div 100 = 4 THEN "4xx"
    ELSE "other"

\* Faulty variant: the loop has no budget.
RetryLoopCond_Forever(attempt) == attempt >= 0

\* Faulty variant: one iteration too many.
RetryLoopCond_Inclusive(attempt) == attempt <= maxRetries

RetryLoopCond(attempt) == attempt < maxRetries

(***************************************************************************)
(* Storage.removeEventsFromQueue: the filter.                              *)
(***************************************************************************)
\* Faulty variant: keeps the ids to remove and removes the others.
FilterRemoved_Inverted(events, eventIds) ==
    SelectSeq(events, LAMBDA e : e \in Range(eventIds))

FilterRemoved(events, eventIds) ==
    SelectSeq(events, LAMBDA e : e \notin Range(eventIds))


(***************************************************************************)
(* The state after construction: no process has initialized the SDK, the   *)
(* durable store holds no events.                                          *)
(***************************************************************************)
InitQueue ==
    /\ phase = "down"
    /\ flushTimer = FALSE
    /\ isFlushing = FALSE
    /\ store = <<>>
    /\ nextId = 1
    /\ procs = [p \in Procs |-> Idle]
    /\ written = {}
    /\ acked = {}

Init == InitQueue /\ calc = NoCalc /\ size = QueuedSizes /\ tx = NoTx /\ sdk = NoSdk

\* A new call chain runs on the lowest free slot (the slots are interchangeable).
FreeProc(p) ==
    /\ procs[p].pc = "idle"
    /\ \A q \in Procs : procs[q].pc = "idle" => p <= q

\* The positions of flush() after its entry read, up to the end of the call.
AfterEntryRead == {"send", "batch_done", "rm_read", "rm_write", "remaining"}

InFlushBody(p) == procs[p].pc \in {"fl_read"} \cup AfterEntryRead

\* History: a write of the store by q is an operation interleaved with the
\* flush executions of the other call chains.
MarkDirty(ps, q) ==
    [p \in Procs |->
        IF p # q /\ ps[p].pc \in AfterEntryRead
        THEN [ps[p] EXCEPT !.dirty = TRUE] ELSE ps[p]]

\* The lifecycle after the call of operation o has returned.
Returned(o, ph) ==
    IF o = "init" THEN "up" ELSE IF o = "shutdown" THEN "shut" ELSE ph

(***************************************************************************)
(* EventQueue.flush: the guard, the entry and the end (finally).           *)
(***************************************************************************)
\* Faulty variant: no guard.
FlushGuard_Never == FALSE

FlushGuard == isFlushing

\* Faulty variant: the guard return runs the finally block too.
FlushAlreadyInProgress_Finally(p, o, ph) ==
    /\ procs' = [procs EXCEPT ![p] = Idle]
    /\ phase' = Returned(o, ph)
    /\ isFlushing' = FALSE

FlushAlreadyInProgress(p, o, ph) ==
    /\ procs' = [procs EXCEPT ![p] = Idle]
    /\ phase' = Returned(o, ph)
    /\ UNCHANGED isFlushing

FlushEnter(p, o, ph) ==
    /\ isFlushing' = TRUE
    /\ procs' = [procs EXCEPT ![p] = [Idle EXCEPT !.pc = "fl_read", !.op = o]]
    /\ phase' = ph

FlushCall(p, o, ph) ==
    IF FlushGuard THEN FlushAlreadyInProgress(p, o, ph) ELSE FlushEnter(p, o, ph)

\* Faulty variant: the end of flush() leaves the guard set.
FlushReturn_GuardSet(p) ==
    /\ UNCHANGED isFlushing
    /\ procs' = [procs EXCEPT ![p] = Idle]
    /\ phase' = Returned(procs[p].op, phase)

FlushReturn(p) ==
    /\ isFlushing' = FALSE
    /\ procs' = [procs EXCEPT ![p] = Idle]
    /\ phase' = Returned(procs[p].op, phase)

(***************************************************************************)
(* EventQueue.initialize, the timer, manual flush, shutdown; process death.*)
(***************************************************************************)
Initialize(p) ==
    /\ phase = "down"
    /\ FreeProc(p)
    /\ flushTimer' = TRUE
    /\ FlushCall(p, "init", "init")
    /\ UNCHANGED <<store, nextId, written, acked, calc, size, tx, sdk>>

Tick(p) ==
    /\ flushTimer
    /\ FreeProc(p)
    /\ FlushCall(p, "flush", phase)
    /\ UNCHANGED <<flushTimer, store, nextId, written, acked, calc, size, tx, sdk>>

ManualFlush(p) ==
    /\ phase \in {"up", "stopping"}
    /\ FreeProc(p)
    /\ FlushCall(p, "flush", phase)
    /\ UNCHANGED <<flushTimer, store, nextId, written, acked, calc, size, tx, sdk>>

\* Faulty variant: shutdown() leaves the timer running.
Shutdown_TimerRunning(p) ==
    /\ phase = "up"
    /\ FreeProc(p)
    /\ FlushCall(p, "shutdown", "stopping")
    /\ UNCHANGED <<flushTimer, store, nextId, written, acked, calc, size, tx, sdk>>

Shutdown(p) ==
    /\ phase = "up"
    /\ FreeProc(p)
    /\ flushTimer' = FALSE
    /\ FlushCall(p, "shutdown", "stopping")
    /\ UNCHANGED <<store, nextId, written, acked, calc, size, tx, sdk>>

Crash ==
    /\ phase # "down"
    /\ phase' = "down"
    /\ flushTimer' = FALSE
    /\ isFlushing' = FALSE
    /\ procs' = [p \in Procs |-> Idle]
    /\ UNCHANGED <<store, nextId, written, acked, calc, size, tx, sdk>>

(***************************************************************************)
(* EventQueue.enqueue with Storage.addEventToQueue.                        *)
(***************************************************************************)
Enqueue(p) ==
    /\ phase \in {"up", "stopping"}
    /\ FreeProc(p)
    /\ nextId <= MaxEvents
    /\ procs' = [procs EXCEPT ![p] =
                    [Idle EXCEPT !.pc = "add_write", !.op = "enqueue",
                                 !.event = nextId, !.snap = store]]
    /\ nextId' = nextId + 1
    /\ UNCHANGED <<phase, flushTimer, isFlushing, store, written, acked, calc, size, tx, sdk>>

AddWrite(p) ==
    /\ procs[p].pc = "add_write"
    /\ store' = Append(procs[p].snap, procs[p].event)
    /\ written' = written \cup {procs[p].event}
    /\ procs' = MarkDirty([procs EXCEPT ![p].snap = <<>>, ![p].pc = "enq_len"], p)
    /\ UNCHANGED <<phase, flushTimer, isFlushing, nextId, acked, calc, size, tx, sdk>>

\* Faulty variant: the queue may hold maxQueueSize events without a flush.
CapacityReached_Strict(length) == length > maxQueueSize

\* enqueue(): the test of the length read back.
CapacityReached(length) == length >= maxQueueSize

EnqueueCheck(p) ==
    /\ procs[p].pc = "enq_len"
    /\ IF CapacityReached(Len(store))
       THEN FlushCall(p, "enqueue", phase)
       ELSE /\ procs' = [procs EXCEPT ![p] = Idle]
            /\ UNCHANGED <<phase, isFlushing>>
    /\ UNCHANGED <<flushTimer, store, nextId, written, acked, calc, size, tx, sdk>>

(***************************************************************************)
(* EventQueue.flush: the body, with Transport.sendBatch inlined.           *)
(***************************************************************************)
\* Faulty variant: the return on an empty queue skips the finally block.
FlushRead_EarlyReturn(p) ==
    /\ procs[p].pc = "fl_read"
    /\ IF Len(store) = 0
       THEN /\ procs' = [procs EXCEPT ![p] = Idle]
            /\ phase' = Returned(procs[p].op, phase)
            /\ UNCHANGED isFlushing
       ELSE /\ procs' = [procs EXCEPT ![p].events = store, ![p].pc = "send", ![p].bi = 1]
            /\ UNCHANGED <<phase, isFlushing>>
    /\ UNCHANGED <<flushTimer, store, nextId, written, acked, calc, size, tx, sdk>>

FlushRead(p) ==
    /\ procs[p].pc = "fl_read"
    /\ IF Len(store) = 0
       THEN FlushReturn(p)
       ELSE /\ procs' = [procs EXCEPT ![p].events = store, ![p].pc = "send", ![p].bi = 1]
            /\ UNCHANGED <<phase, isFlushing>>
    /\ UNCHANGED <<flushTimer, store, nextId, written, acked, calc, size, tx, sdk>>

\* One iteration of the retry loop: one fetch and the handling of its outcome.
\* requests, last and rejected are history: the fetches issued for the batch so
\* far, what the last of them was answered, and the ids of the batches of this
\* flush that were answered 4xx.
SendAttempt(p, status) ==
    /\ procs[p].pc = "send"
    /\ LET r == procs[p]
           batch == createBatches(r.events)[r.bi]
           c == Classify(status)
           h == [r EXCEPT !.requests = r.requests + 1, !.last = StatusClass(status),
                          !.rejected = IF StatusClass(status) = "4xx"
                                       THEN r.rejected \cup Range(batch) ELSE r.rejected]
       IN  /\ procs' = [procs EXCEPT ![p] =
                 IF c = "ok"
                 THEN [h EXCEPT !.pc = "batch_done",
                                !.sentEventIds = r.sentEventIds \o batch]
                 ELSE IF c = "client"
                 THEN [h EXCEPT !.pc = "batch_done"]
                 ELSE IF RetryLoopCond(r.attempt + 1)
                 THEN [h EXCEPT !.attempt = r.attempt + 1]
                 ELSE [h EXCEPT !.attempt = r.attempt + 1, !.pc = "batch_done"]]
           /\ acked' = IF StatusClass(status) = "2xx"
                       THEN acked \cup Range(batch) ELSE acked
    /\ UNCHANGED <<phase, flushTimer, isFlushing, store, nextId, written, calc, size, tx, sdk>>

\* sendBatch goes on to the next batch, or returns to flush().
NextBatch(p) ==
    /\ procs[p].pc = "batch_done"
    /\ LET r == procs[p]
           n == [r EXCEPT !.attempt = 0, !.requests = 0, !.last = "none"]
       IN  procs' = [procs EXCEPT ![p] =
                 IF r.bi < Len(createBatches(r.events))
                 THEN [n EXCEPT !.bi = r.bi + 1, !.pc = "send"]
                 ELSE [n EXCEPT !.bi = 0,
                                !.pc = IF Len(r.sentEventIds) > 0
                                       THEN "rm_read" ELSE "remaining"]]
    /\ UNCHANGED <<phase, flushTimer, isFlushing, store, nextId, written, acked, calc, size, tx, sdk>>

RemoveRead(p) ==
    /\ procs[p].pc = "rm_read"
    /\ procs' = [procs EXCEPT ![p].snap = store, ![p].pc = "rm_write"]
    /\ UNCHANGED <<phase, flushTimer, isFlushing, store, nextId, written, acked, calc, size, tx, sdk>>

RemoveWrite(p) ==
    /\ procs[p].pc = "rm_write"
    /\ store' = FilterRemoved(procs[p].snap, procs[p].sentEventIds)
    /\ procs' = MarkDirty([procs EXCEPT ![p].snap = <<>>, ![p].pc = "remaining"], p)
    /\ UNCHANGED <<phase, flushTimer, isFlushing, nextId, written, acked, calc, size, tx, sdk>>

FlushEnd(p) ==
    /\ procs[p].pc = "remaining"
    /\ FlushReturn(p)
    /\ UNCHANGED <<flushTimer, store, nextId, written, acked, calc, size, tx, sdk>>

(***************************************************************************)
(* calculateBackoff as the retry loop applies it: to the attempt number,   *)
(* which the loop increments, and the three delays of the configuration.   *)
(***************************************************************************)
InitBackoff ==
    /\ InitQueue
    /\ calc \in [attempt : 0..MaxAttempt,
                 initialDelay : {500, initialDelay},
                 maxDelay : {4000, maxDelay},
                 multiplier : {1, backoffMultiplier, 3},
                 delay : {-1}, prev : {-1}]
    /\ size = QueuedSizes
    /\ tx = NoTx
    /\ sdk = NoSdk

ApplyBackoff ==
    /\ calc.delay = -1
    /\ calc' = [calc EXCEPT !.delay = calculateBackoff(calc.attempt, calc.initialDelay,
                                                       calc.maxDelay, calc.multiplier)]
    /\ UNCHANGED <<queueVars, size, tx, sdk>>

NextAttempt ==
    /\ calc.delay # -1
    /\ calc.attempt < MaxAttempt
    /\ calc' = [calc EXCEPT !.attempt = calc.attempt + 1,
                            !.prev = calc.delay,
                            !.delay = calculateBackoff(calc.attempt + 1, calc.initialDelay,
                                                       calc.maxDelay, calc.multiplier)]
    /\ UNCHANGED <<queueVars, size, tx, sdk>>

NextBackoff == ApplyBackoff \/ NextAttempt

SpecBackoff == InitBackoff /\ [][NextBackoff]_vars

(***************************************************************************)
(* Transport.sendBatch on its own: one call, on any list of events of any  *)
(* sizes, an event larger than MAX_BATCH_SIZE included.  requests, tried,  *)
(* okIds and failed are history: the fetches issued, the batches a fetch   *)
(* was issued for, the ids of the batches answered 2xx, and whether any    *)
(* fetch was not answered 2xx.                                             *)
(***************************************************************************)
InitTransport ==
    /\ InitQueue
    /\ calc = NoCalc
    /\ \E n \in 0..MaxEvents :
          /\ tx = [NoTx EXCEPT !.pc = "call", !.events = [i \in 1..n |-> i]]
          /\ size \in {f \in [EventIds -> 1..(MAX_BATCH_SIZE + 1)] :
                          \A e \in EventIds : e > n => f[e] = 1}
    /\ sdk = NoSdk

SendBatchCall ==
    /\ tx.pc = "call"
    /\ tx' = IF Len(tx.events) = 0
             THEN [tx EXCEPT !.pc = "returned"]
             ELSE [tx EXCEPT !.batches = createBatches(tx.events), !.bi = 1,
                             !.pc = "send"]
    /\ UNCHANGED <<queueVars, calc, size, sdk>>

\* Faulty variant: the loop over the batches ends at the first batch that is
\* not acknowledged.
SendBatchLoop_Break(r, success) ==
    IF success /\ r.bi < Len(r.batches)
    THEN [r EXCEPT !.bi = r.bi + 1, !.attempt = 0]
    ELSE [r EXCEPT !.pc = "returned"]

\* The for loop of sendBatch after sendBatchWithRetry has returned success.
SendBatchLoop(r, success) ==
    IF r.bi < Len(r.batches)
    THEN [r EXCEPT !.bi = r.bi + 1, !.attempt = 0]
    ELSE [r EXCEPT !.pc = "returned"]

SendBatchAttempt(status) ==
    /\ tx.pc = "send"
    /\ LET batch == tx.batches[tx.bi]
           c == Classify(status)
           h == [tx EXCEPT !.requests = tx.requests + 1,
                           !.tried = tx.tried \cup {tx.bi},
                           !.okIds = IF StatusClass(status) = "2xx"
                                     THEN tx.okIds \cup Range(batch) ELSE tx.okIds,
                           !.failed = tx.failed \/ StatusClass(status) # "2xx"]
       IN  tx' = IF c = "ok"
                 THEN SendBatchLoop([h EXCEPT !.sentEventIds = tx.sentEventIds \o batch],
                                    TRUE)
                 ELSE IF c = "client"
                 THEN SendBatchLoop(h, FALSE)
                 ELSE IF RetryLoopCond(tx.attempt + 1)
                 THEN [h EXCEPT !.attempt = tx.attempt + 1]
                 ELSE SendBatchLoop(h, FALSE)
    /\ UNCHANGED <<queueVars, calc, size, sdk>>

NextTransport ==
    \/ SendBatchCall
    \/ \E status \in Statuses : SendBatchAttempt(status)

SpecTransport == InitTransport /\ [][NextTransport]_vars

(***************************************************************************)
(* AxyleClient and SessionManager.  sdk is the client, the current session *)
(* of its SessionManager, the durable store (disk), the clock and the      *)
(* pending call chains (tasks).  The operators below are the synchronous   *)
(* parts of the methods: they take the state and return the state the      *)
(* method leaves when it reaches an await whose promise is pending, with   *)
(* the call chain added to tasks.  A storage operation takes effect when   *)
(* it is issued; the chain goes on when it has completed.  AsyncStorage    *)
(* serves its operations one at a time in the order they were issued, so   *)
(* tasks is a queue; a chain that waits for an already resolved promise    *)
(* (micro) goes on before any storage operation completes, and a chain     *)
(* that waits for the network (the flush of the queue) goes on at any time.*)
(* log is history: the session callbacks fired, in order, each with        *)
(* whether the track() call it made passed the guards of track(); event is *)
(* history too, the last event createEvent() returned.                     *)
(***************************************************************************)
Users == {"u1"}

\* A persisted session of an earlier process.
OldSession == [sessionId |-> 1, startTime |-> 0, lastActivityTime |-> 1]

AddTask(s, t) == [s EXCEPT !.tasks = Append(@, t)]

DelTask(s, i) ==
    [s EXCEPT !.tasks = SubSeq(@, 1, i - 1) \o SubSeq(@, i + 1, Len(@))]

\* The chains that wait for the network.
Slow(t) == t.pc \in {"in_queue", "sd_queue"}

MicroPending == \E j \in 1..Len(sdk.tasks) : sdk.tasks[j].micro

\* The chain at position i of tasks is the one that goes on next.
Runnable(i) ==
    /\ i \in 1..Len(sdk.tasks)
    /\ IF MicroPending
       THEN /\ sdk.tasks[i].micro
            /\ \A j \in 1..(i - 1) : ~sdk.tasks[j].micro
       ELSE \/ Slow(sdk.tasks[i])
            \/ \A j \in 1..(i - 1) : Slow(sdk.tasks[j])

TaskIndexes == 1..Len(sdk.tasks)

Log(s, kind, sessionId, duration, tracked) ==
    [s EXCEPT !.log = Append(@, [kind |-> kind, sessionId |-> sessionId,
                                 duration |-> duration, tracked |-> tracked])]

\* The event names of the model, spelled out: the number of characters of a
\* name and the kinds of characters in it.
EventNames ==
    [name \in {"custom", "App Opened", "Session Started", "Session Ended",
               "User Identified", "User Deletion Requested", "App Foregrounded",
               "", "bad!", "long"} |->
        IF name = "custom" THEN [length |-> 6, chars |-> {"alnum"}]
        ELSE IF name = "" THEN [length |-> 0, chars |-> {}]
        ELSE IF name = "bad!" THEN [length |-> 4, chars |-> {"alnum", "other"}]
        ELSE IF name = "long" THEN [length |-> 256, chars |-> {"alnum"}]
        ELSE IF name = "User Deletion Requested"
        THEN [length |-> 23, chars |-> {"alnum", "space"}]
        ELSE IF name = "User Identified" THEN [length |-> 15, chars |-> {"alnum", "space"}]
        ELSE IF name = "Session Started" THEN [length |-> 15, chars |-> {"alnum", "space"}]
        ELSE IF name = "Session Ended" THEN [length |-> 13, chars |-> {"alnum", "space"}]
        ELSE IF name = "App Foregrounded" THEN [length |-> 16, chars |-> {"alnum", "space"}]
        ELSE [length |-> 10, chars |-> {"alnum", "space"}]]

\* Faulty variant: only the empty name is invalid.
isValidEventName_NonEmpty(name) == EventNames[name].length # 0

\* utils.isValidEventName: 1 to 255 characters, each alphanumeric, white
\* space, underscore or hyphen.
isValidEventName(name) ==
    /\ EventNames[name].length # 0
    /\ EventNames[name].length <= 255
    /\ EventNames[name].chars \subseteq {"alnum", "space", "underscore", "hyphen"}

\* The guards of track(): initialized and not opted out.
TrackGuard_NoOptOut(s) == s.isInitialized

TrackGuard(s) == s.isInitialized /\ ~s.isOptedOut

\* Faulty variant: expiry only after the timeout has been exceeded.
SessionExpired_Strict(now, session) == now - session.lastActivityTime > sessionTimeout

SessionExpired(now, session) == now - session.lastActivityTime >= sessionTimeout

RECURSIVE track(_, _, _, _)
RECURSIVE updateActivity(_, _, _)
RECURSIVE endSession(_, _, _)
RECURSIVE startNewSession(_, _)

\* AxyleClient.track up to its first pending await.  depth is the number of
\* track() calls on the call stack; a call the stack cannot hold raises
\* RangeError, which the try/catch of track() swallows.
track(s, name, properties, depth) ==
    IF depth > StackDepth THEN s
    ELSE IF ~TrackGuard(s) THEN s
    ELSE IF ~isValidEventName(name) THEN s
    ELSE updateActivity(s, [NoTask EXCEPT !.op = "track", !.name = name,
                                          !.properties = properties,
                                          !.resumed = s.resumed], depth)

\* Faulty variant: an exception of the end callback leaves updateActivity().
updateActivity_Propagates(s, t, depth) ==
    IF s.currentSession = NoSession
    THEN AddTask(s, [t EXCEPT !.pc = "ua_done", !.micro = TRUE])
    ELSE IF SessionExpired(s.now, s.currentSession)
    THEN IF s.callbacksThrow
         THEN endSession(s, s.currentSession, depth)
         ELSE startNewSession(endSession(s, s.currentSession, depth),
                              [t EXCEPT !.expired = s.currentSession.sessionId])
    ELSE LET session == [s.currentSession EXCEPT !.lastActivityTime = s.now]
         IN  AddTask([s EXCEPT !.currentSession = session, !.disk.session = session],
                     [t EXCEPT !.pc = "ua_done"])

\* SessionManager.updateActivity, called by the chain t.
updateActivity(s, t, depth) ==
    IF s.currentSession = NoSession
    THEN AddTask(s, [t EXCEPT !.pc = "ua_done", !.micro = TRUE])
    ELSE IF SessionExpired(s.now, s.currentSession)
    THEN startNewSession(endSession(s, s.currentSession, depth),
                         [t EXCEPT !.expired = s.currentSession.sessionId])
    ELSE LET session == [s.currentSession EXCEPT !.lastActivityTime = s.now]
         IN  AddTask([s EXCEPT !.currentSession = session, !.disk.session = session],
                     [t EXCEPT !.pc = "ua_done"])

\* SessionManager.endSession: the end callback, AxyleClient.handleSessionEnd,
\* which calls track() and does not wait for it.
endSession(s, session, depth) ==
    IF s.callbacksThrow
    THEN Log(s, "end", session.sessionId,
             session.lastActivityTime - session.startTime, FALSE)
    ELSE track(Log(s, "end", session.sessionId,
                   session.lastActivityTime - session.startTime,
                   TrackGuard(s) /\ depth < StackDepth),
               "Session Ended", NoProperties, depth + 1)

\* SessionManager.startNewSession up to the await of the storage write.
startNewSession(s, t) ==
    LET session == [sessionId |-> s.nextSessionId, startTime |-> s.now,
                    lastActivityTime |-> s.now]
    IN  AddTask([s EXCEPT !.currentSession = session, !.disk.session = session,
                          !.nextSessionId = @ + 1],
                [t EXCEPT !.pc = "sn_saved", !.sessionId = session.sessionId,
                          !.started = s.calls])

\* The start callback, AxyleClient.handleSessionStart.
onSessionStart(s, sessionId) ==
    IF s.callbacksThrow
    THEN Log(s, "start", sessionId, 0, FALSE)
    ELSE track([Log(s, "start", sessionId, 0, TrackGuard(s))
                   EXCEPT !.sessionAnalytics = 0],
               "Session Started", NoProperties, 1)

\* SessionManager.initialize after the read of the persisted record.
SessionInitialize(s, t) ==
    IF t.saved = NoSession
    THEN startNewSession(s, t)
    ELSE IF ~SessionExpired(s.now, t.saved)
    THEN updateActivity([s EXCEPT !.currentSession = t.saved], t, 0)
    ELSE startNewSession(endSession(s, t.saved, 0), t)

\* init() after queue.initialize() has returned (or with no API key).
InitDone(s) ==
    track([s EXCEPT !.isInitialized = TRUE, !.phase = "up"], "App Opened",
          NoProperties, 1)

\* init() or optIn() after sessionManager.initialize() has returned.
AfterSessionInitialize(s, t) ==
    IF t.op = "optIn"
    THEN [s EXCEPT !.sessionAnalytics = 0, !.resumed = ~s.optedOut]
    ELSE IF s.apiKey
    THEN AddTask([s EXCEPT !.sessionAnalytics = 0, !.queue = TRUE],
                 [t EXCEPT !.pc = "in_queue"])
    ELSE InitDone([s EXCEPT !.sessionAnalytics = 0])

\* A call of the public API: calls and call are history, and so is optedOut,
\* which is TRUE when the last of the calls of optOut() and optIn(), of this
\* process or an earlier one, is optOut(); resumed is TRUE when optIn() has
\* returned and neither optOut() nor optIn() has been called since (the
\* chain of a track() call keeps the value it was called with).
Called(s, call) == [s EXCEPT !.calls = @ + 1, !.call = call]

CanCall ==
    /\ sdk.calls < MaxCalls
    /\ Len(sdk.tasks) < NumProcs
    /\ ~MicroPending

InitClient ==
    /\ InitQueue
    /\ calc = NoCalc
    /\ size = QueuedSizes
    /\ tx = NoTx
    /\ \E o \in BOOLEAN, session \in {NoSession, OldSession} :
          sdk = [NoSdk EXCEPT !.disk.optOut = o, !.optedOut = o,
                            !.disk.session = session]

ClientInit ==
    /\ sdk.phase = "down"
    /\ ~MicroPending
    /\ sdk' = AddTask([sdk EXCEPT !.phase = "init", !.call = "init"],
                      [NoTask EXCEPT !.op = "init", !.pc = "in_opt",
                                     !.flag = sdk.disk.optOut])
    /\ UNCHANGED pipelineVars

\* init() after Storage.isOptedOut: the ids and the read of the session record.
\* A read of the session record that fails gives null.
InitOptOut(i) ==
    /\ Runnable(i)
    /\ sdk.tasks[i].pc = "in_opt"
    /\ LET s == DelTask(sdk, i)
       IN  IF sdk.tasks[i].flag
           THEN sdk' = [s EXCEPT !.isOptedOut = TRUE, !.isInitialized = TRUE,
                                 !.phase = "up"]
           ELSE \E saved \in {s.disk.session, NoSession} :
                  LET anonymousId == IF s.disk.anonymousId = "" THEN "anon1"
                                     ELSE s.disk.anonymousId
                  IN  sdk' = AddTask([s EXCEPT !.isOptedOut = FALSE,
                                               !.anonymousId = anonymousId,
                                               !.disk.anonymousId = anonymousId,
                                               !.userId = s.disk.userId,
                                               !.currentSession = NoSession],
                                     [sdk.tasks[i] EXCEPT !.pc = "si_read", !.saved = saved])
    /\ UNCHANGED pipelineVars

SessionRead(i) ==
    /\ Runnable(i)
    /\ sdk.tasks[i].pc = "si_read"
    /\ sdk' = SessionInitialize(DelTask(sdk, i), sdk.tasks[i])
    /\ UNCHANGED pipelineVars

QueueInitialized(i) ==
    /\ Runnable(i)
    /\ sdk.tasks[i].pc = "in_queue"
    /\ sdk' = InitDone(DelTask(sdk, i))
    /\ UNCHANGED pipelineVars

\* Faulty variant: the event is stamped before the session activity is updated,
\* with the session that was current when track() was called.
getSessionId_AtCall(s, t) ==
    IF t.expired # 0 THEN t.expired ELSE s.currentSession.sessionId

\* The session id createEvent() stamps on the event of the chain t.
getSessionId(s, t) == s.currentSession.sessionId

\* Faulty variant: the anonymous id is removed with the other keys.
clearAll_Everything(disk) ==
    [disk EXCEPT !.queue = <<>>, !.userId = "", !.session = NoSession,
                 !.optOut = FALSE, !.anonymousId = ""]

\* Storage.clearAll: the keys removed from the durable store.
clearAll(disk) ==
    [disk EXCEPT !.queue = <<>>, !.userId = "", !.session = NoSession,
                 !.optOut = FALSE]

\* The track() chain t is the one deleteUser() waits for.
IsDeletion(t) == t.name = "User Deletion Requested"

\* deleteUser() after track() has returned: the local counters are cleared
\* and Storage.clearAll is issued.
AfterDeletionTracked(s) ==
    AddTask([s EXCEPT !.sessionAnalytics = IF @ = -1 THEN -1 ELSE 0,
                      !.disk = clearAll(@)],
            [NoTask EXCEPT !.op = "deleteUser", !.pc = "du_cleared"])

\* Faulty variant: no ceiling on the size of an event.
EventSizeOk_Any(event) == TRUE

\* track(): the size of the created event against MAX_EVENT_SIZE.
EventSizeOk(event) == ~(event.properties.size > MAX_EVENT_SIZE)

\* The chain t goes on after updateActivity() has returned.
ActivityUpdated(i) ==
    /\ Runnable(i)
    /\ sdk.tasks[i].pc = "ua_done"
    /\ LET s == DelTask(sdk, i)
       IN  IF sdk.tasks[i].op = "track"
           THEN LET event == [id |-> s.nextEventId, name |-> sdk.tasks[i].name,
                              userId |-> IF s.userId # "" THEN s.userId
                                         ELSE s.anonymousId,
                              anonymousId |-> s.anonymousId,
                              sessionId |-> getSessionId(s, sdk.tasks[i]),
                              properties |-> sdk.tasks[i].properties]
                    s1 == [s EXCEPT !.nextEventId = @ + 1, !.event = event,
                                    !.sessionAnalytics = IF @ = -1 THEN -1 ELSE @ + 1]
                IN  sdk' = IF ~EventSizeOk(event) THEN [s EXCEPT !.nextEventId = @ + 1,
                                                                  !.event = event]
                           ELSE IF s.queue
                           THEN AddTask(s1, [sdk.tasks[i] EXCEPT !.pc = "add_write",
                                                      !.micro = FALSE,
                                                      !.event = event,
                                                      !.snap = s.disk.queue])
                           ELSE IF IsDeletion(sdk.tasks[i]) THEN AfterDeletionTracked(s1)
                           ELSE s1
           ELSE IF sdk.tasks[i].op = "foreground" THEN sdk' = s
           ELSE sdk' = AfterSessionInitialize(s, sdk.tasks[i])
    /\ UNCHANGED pipelineVars

\* Storage.addEventToQueue: the write of the list read, with the event.
QueueWrite(i) ==
    /\ Runnable(i)
    /\ sdk.tasks[i].pc = "add_write"
    /\ LET s == [DelTask(sdk, i) EXCEPT
                    !.disk.queue = Append(sdk.tasks[i].snap, sdk.tasks[i].event)]
       IN  sdk' = IF IsDeletion(sdk.tasks[i])
                  THEN AddTask(s, [sdk.tasks[i] EXCEPT !.pc = "du_enqueue"])
                  ELSE s
    /\ UNCHANGED pipelineVars

\* deleteUser() after the enqueue of its event has returned.
DeletionEnqueued(i) ==
    /\ Runnable(i)
    /\ sdk.tasks[i].pc = "du_enqueue"
    /\ sdk' = AfterDeletionTracked(DelTask(sdk, i))
    /\ UNCHANGED pipelineVars

\* deleteUser() returns when Storage.clearAll has completed.
UserDeleted(i) ==
    /\ Runnable(i)
    /\ sdk.tasks[i].pc = "du_cleared"
    /\ sdk' = DelTask(sdk, i)
    /\ UNCHANGED pipelineVars

\* startNewSession() after the record is written: the start callback.
SessionStarted(i) ==
    /\ Runnable(i)
    /\ sdk.tasks[i].pc = "sn_saved"
    /\ LET s == onSessionStart(DelTask(sdk, i), sdk.tasks[i].sessionId)
           t == [sdk.tasks[i] EXCEPT !.started = 0]
       IN  sdk' = IF t.op = "track"
                  THEN AddTask(s, [t EXCEPT !.pc = "ua_done", !.micro = TRUE])
                  ELSE IF t.op \in {"reset", "foreground"} THEN s
                  ELSE AfterSessionInitialize(s, t)
    /\ UNCHANGED pipelineVars

\* track() with any name and any size of the event's properties.
TrackEvent(name, eventSize) ==
    /\ CanCall
    /\ sdk' = track(Called(sdk, "track"), name,
                    [NoProperties EXCEPT !.size = eventSize], 1)
    /\ UNCHANGED pipelineVars

\* deleteUser(): track() is awaited; a track() that returns at a guard leaves
\* no chain, and deleteUser() goes on at once.
DeleteUser ==
    /\ CanCall
    /\ LET s == Called(sdk, "deleteUser")
           tracked == track(s, "User Deletion Requested", NoProperties, 1)
       IN  sdk' = IF tracked = s THEN AfterDeletionTracked(s) ELSE tracked
    /\ UNCHANGED pipelineVars

Track ==
    /\ CanCall
    /\ sdk' = track(Called(sdk, "track"), "custom", NoProperties, 1)
    /\ UNCHANGED pipelineVars

\* A variant of previousUserId that always reports the anonymous id.
previousUserId_Anonymous(s) ==
    s.anonymousId

\* The previousUserId property of the User Identified event: the user id
\* before the call, or the anonymous id when there was none.
previousUserId(s) ==
    IF s.userId # "" THEN s.userId ELSE s.anonymousId

Identify(userId) ==
    /\ CanCall
    /\ LET s == Called(sdk, "identify")
       IN  sdk' = IF ~s.isInitialized \/ s.isOptedOut THEN s
                  ELSE AddTask([s EXCEPT !.userId = userId, !.disk.userId = userId],
                               [NoTask EXCEPT !.op = "identify", !.pc = "id_saved",
                                              !.properties =
                                                 [NoProperties EXCEPT
                                                    !.previousUserId = previousUserId(s),
                                                    !.identified = userId,
                                                    !.calls = s.calls]])
    /\ UNCHANGED pipelineVars

UserIdSaved(i) ==
    /\ Runnable(i)
    /\ sdk.tasks[i].pc = "id_saved"
    /\ sdk' = track(DelTask(sdk, i), "User Identified", sdk.tasks[i].properties, 1)
    /\ UNCHANGED pipelineVars

Reset ==
    /\ CanCall
    /\ LET s == Called(sdk, "reset")
       IN  sdk' = IF ~s.isInitialized THEN s
                  ELSE AddTask([s EXCEPT !.userId = "", !.disk.userId = ""],
                               [NoTask EXCEPT !.op = "reset", !.pc = "rs_user",
                                              !.properties.calls = s.calls])
    /\ UNCHANGED pipelineVars

\* reset() after Storage.clearUserId: forceEndSession up to clearSessionData.
UserIdCleared(i) ==
    /\ Runnable(i)
    /\ sdk.tasks[i].pc = "rs_user"
    /\ LET s == DelTask(sdk, i)
       IN  sdk' = IF s.currentSession = NoSession
                  THEN startNewSession(s, sdk.tasks[i])
                  ELSE AddTask([endSession(s, s.currentSession, 0)
                                   EXCEPT !.disk.session = NoSession],
                               [sdk.tasks[i] EXCEPT !.pc = "rs_session"])
    /\ UNCHANGED pipelineVars

SessionCleared(i) ==
    /\ Runnable(i)
    /\ sdk.tasks[i].pc = "rs_session"
    /\ sdk' = startNewSession([DelTask(sdk, i) EXCEPT !.currentSession = NoSession], sdk.tasks[i])
    /\ UNCHANGED pipelineVars

OptOut ==
    /\ CanCall
    /\ sdk' = AddTask([Called(sdk, "optOut") EXCEPT !.isOptedOut = TRUE,
                                                    !.disk.optOut = TRUE,
                                                    !.optedOut = TRUE,
                                                    !.resumed = FALSE],
                      [NoTask EXCEPT !.op = "optOut", !.pc = "oo_saved"])
    /\ UNCHANGED pipelineVars

OptOutSaved(i) ==
    /\ Runnable(i)
    /\ sdk.tasks[i].pc = "oo_saved"
    /\ sdk' = [DelTask(sdk, i) EXCEPT !.sessionAnalytics = IF @ = -1 THEN -1 ELSE 0]
    /\ UNCHANGED pipelineVars

OptIn ==
    /\ CanCall
    /\ sdk' = AddTask([Called(sdk, "optIn") EXCEPT !.isOptedOut = FALSE,
                                                   !.disk.optOut = FALSE,
                                                   !.optedOut = FALSE,
                                                   !.resumed = FALSE],
                      [NoTask EXCEPT !.op = "optIn", !.pc = "oi_saved"])
    /\ UNCHANGED pipelineVars

\* optIn() after Storage.setOptOut: a new SessionManager when there is no session.
\* A read of the session record that fails gives null.
OptInSaved(i) ==
    /\ Runnable(i)
    /\ sdk.tasks[i].pc = "oi_saved"
    /\ LET s == DelTask(sdk, i)
       IN  IF s.currentSession = NoSession
           THEN \E saved \in {s.disk.session, NoSession} :
                  sdk' = AddTask(s, [sdk.tasks[i] EXCEPT !.pc = "si_read",
                                                         !.saved = saved])
           ELSE sdk' = [s EXCEPT !.resumed = ~s.optedOut]
    /\ UNCHANGED pipelineVars

\* shutdown(): the queue is shut down, then the client is not initialized.
ClientShutdown ==
    /\ sdk.phase = "up"
    /\ Len(sdk.tasks) < NumProcs
    /\ ~MicroPending
    /\ sdk' = AddTask([sdk EXCEPT !.phase = "stopping", !.call = "shutdown"],
                      [NoTask EXCEPT !.op = "shutdown", !.pc = "sd_queue"])
    /\ UNCHANGED pipelineVars

QueueShutDown(i) ==
    /\ Runnable(i)
    /\ sdk.tasks[i].pc = "sd_queue"
    /\ sdk' = [DelTask(sdk, i) EXCEPT !.isInitialized = FALSE, !.phase = "shut"]
    /\ UNCHANGED pipelineVars

\* The clock: time passes between the calls.
Advance ==
    /\ sdk.now < MaxTime
    /\ sdk.tasks = <<>>
    /\ sdk' = [sdk EXCEPT !.now = @ + 1]
    /\ UNCHANGED pipelineVars

NextClient ==
    \/ ClientInit
    \/ Track
    \/ \E userId \in Users : Identify(userId)
    \/ Reset
    \/ OptOut
    \/ OptIn
    \/ ClientShutdown
    \/ Advance
    \/ \E i \in TaskIndexes : InitOptOut(i)
    \/ \E i \in TaskIndexes : SessionRead(i)
    \/ \E i \in TaskIndexes : QueueInitialized(i)
    \/ \E i \in TaskIndexes : ActivityUpdated(i)
    \/ \E i \in TaskIndexes : QueueWrite(i)
    \/ \E i \in TaskIndexes : SessionStarted(i)
    \/ \E i \in TaskIndexes : UserIdSaved(i)
    \/ \E i \in TaskIndexes : UserIdCleared(i)
    \/ \E i \in TaskIndexes : SessionCleared(i)
    \/ \E i \in TaskIndexes : OptOutSaved(i)
    \/ \E i \in TaskIndexes : OptInSaved(i)
    \/ \E i \in TaskIndexes : QueueShutDown(i)

SpecClient == InitClient /\ [][NextClient]_vars

(***************************************************************************)
(* The running client and its app-state listener.  init() has returned in  *)
(* a process whose durable store was empty: it has started a session, has  *)
(* tracked App Opened and has set up the listener.                         *)
(***************************************************************************)
FirstSession == [sessionId |-> 2, startTime |-> 1, lastActivityTime |-> 1]

AppOpened == [NoEvent EXCEPT !.id = 1, !.name = "App Opened", !.userId = "anon1",
                             !.anonymousId = "anon1", !.sessionId = 2]

Running ==
    [NoSdk EXCEPT !.phase = "up", !.isInitialized = TRUE, !.queue = TRUE,
                  !.anonymousId = "anon1", !.disk.anonymousId = "anon1",
                  !.sessionAnalytics = 1, !.currentSession = FirstSession,
                  !.disk.session = FirstSession, !.disk.queue = <<AppOpened>>,
                  !.nextSessionId = 3, !.nextEventId = 2, !.call = "init",
                  !.event = AppOpened,
                  !.log = <<[kind |-> "start", sessionId |-> 2, duration |-> 0,
                             tracked |-> FALSE]>>]

InitListening ==
    /\ InitQueue
    /\ calc = NoCalc
    /\ size = QueuedSizes
    /\ tx = NoTx
    /\ sdk = Running

\* The listener when the app comes to the foreground: trackAutoEvent(), not
\* waited for, and then updateActivity().  When the session is expired, the
\* updateActivity() of track() waits for endSession() and has not replaced
\* currentSession when the listener's call reads it.
Foreground ==
    /\ CanCall
    /\ LET s == Called(sdk, "foreground")
           tracked == track(s, "App Foregrounded", NoProperties, 1)
           renews == /\ s.currentSession # NoSession
                     /\ SessionExpired(s.now, s.currentSession)
       IN  sdk' = updateActivity(IF renews
                                 THEN [tracked EXCEPT !.currentSession = s.currentSession]
                                 ELSE tracked,
                                 [NoTask EXCEPT !.op = "foreground"], 0)
    /\ UNCHANGED pipelineVars

NextListening ==
    \/ Track
    \/ Foreground
    \/ Advance
    \/ \E i \in TaskIndexes : ActivityUpdated(i)
    \/ \E i \in TaskIndexes : QueueWrite(i)
    \/ \E i \in TaskIndexes : SessionStarted(i)

SpecListening == InitListening /\ [][NextListening]_vars

(***************************************************************************)
(* The client with session callbacks that throw: the handlers raise an     *)
(* exception as soon as the session manager calls them.                    *)
(***************************************************************************)
InitThrowing ==
    /\ InitQueue
    /\ calc = NoCalc
    /\ size = QueuedSizes
    /\ tx = NoTx
    /\ \E o \in BOOLEAN, session \in {NoSession, OldSession} :
          sdk = [NoSdk EXCEPT !.disk.optOut = o, !.optedOut = o,
                            !.disk.session = session, !.callbacksThrow = TRUE]

SpecThrowing == InitThrowing /\ [][NextClient]_vars

(***************************************************************************)
(* The client with its identity operations and the validation of track(),  *)
(* in the first process of an install or in a later one, which finds the   *)
(* store an earlier process has left.  The clock stands still: no session  *)
(* expires.                                                                *)
(***************************************************************************)
\* The durable store an earlier process of the install has left.
UsedStore(optOut) ==
    [optOut |-> optOut, userId |-> "u0", anonymousId |-> "anon0",
     session |-> OldSession, queue |-> <<>>]

InitUser ==
    /\ InitQueue
    /\ calc = NoCalc
    /\ size = QueuedSizes
    /\ tx = NoTx
    /\ \/ sdk = NoSdk
       \/ \E o \in BOOLEAN :
             sdk = [NoSdk EXCEPT !.disk = UsedStore(o), !.optedOut = o]

NextUser ==
    \/ ClientInit
    \/ \E eventSize \in {MAX_EVENT_SIZE, MAX_EVENT_SIZE + 1} :
          TrackEvent("custom", eventSize)
    \/ \E name \in {"", "bad!", "long"} : TrackEvent(name, 1)
    \/ \E userId \in Users : Identify(userId)
    \/ Reset
    \/ OptOut
    \/ OptIn
    \/ DeleteUser
    \/ \E i \in TaskIndexes : InitOptOut(i)
    \/ \E i \in TaskIndexes : SessionRead(i)
    \/ \E i \in TaskIndexes : QueueInitialized(i)
    \/ \E i \in TaskIndexes : ActivityUpdated(i)
    \/ \E i \in TaskIndexes : QueueWrite(i)
    \/ \E i \in TaskIndexes : DeletionEnqueued(i)
    \/ \E i \in TaskIndexes : UserDeleted(i)
    \/ \E i \in TaskIndexes : SessionStarted(i)
    \/ \E i \in TaskIndexes : UserIdSaved(i)
    \/ \E i \in TaskIndexes : UserIdCleared(i)
    \/ \E i \in TaskIndexes : SessionCleared(i)
    \/ \E i \in TaskIndexes : OptOutSaved(i)
    \/ \E i \in TaskIndexes : OptInSaved(i)

SpecUser == InitUser /\ [][NextUser]_vars

Next ==
    \/ \E p \in Procs : Initialize(p)
    \/ \E p \in Procs : Tick(p)
    \/ \E p \in Procs : ManualFlush(p)
    \/ \E p \in Procs : Shutdown(p)
    \/ Crash
    \/ \E p \in Procs : Enqueue(p)
    \/ \E p \in Procs : AddWrite(p)
    \/ \E p \in Procs : EnqueueCheck(p)
    \/ \E p \in Procs : FlushRead(p)
    \/ \E p \in Procs, status \in Statuses : SendAttempt(p, status)
    \/ \E p \in Procs : NextBatch(p)
    \/ \E p \in Procs : RemoveRead(p)
    \/ \E p \in Procs : RemoveWrite(p)
    \/ \E p \in Procs : FlushEnd(p)

Spec == Init /\ [][Next]_vars

(***************************************************************************)
(* The pipeline in a process that keeps running: no shutdown, no process   *)
(* death.  Every started storage operation completes, the timer keeps      *)
(* ticking and a request that is issued again and again is answered 2xx    *)
(* in the end.                                                             *)
(***************************************************************************)
NextLive ==
    \/ \E p \in Procs : Initialize(p)
    \/ \E p \in Procs : Tick(p)
    \/ \E p \in Procs : ManualFlush(p)
    \/ \E p \in Procs : Enqueue(p)
    \/ \E p \in Procs : AddWrite(p)
    \/ \E p \in Procs : EnqueueCheck(p)
    \/ \E p \in Procs : FlushRead(p)
    \/ \E p \in Procs, status \in Statuses : SendAttempt(p, status)
    \/ \E p \in Procs : NextBatch(p)
    \/ \E p \in Procs : RemoveRead(p)
    \/ \E p \in Procs : RemoveWrite(p)
    \/ \E p \in Procs : FlushEnd(p)

Fairness ==
    \A p \in Procs :
        /\ WF_vars(Initialize(p))
        /\ WF_vars(Tick(p))
        /\ WF_vars(AddWrite(p))
        /\ WF_vars(EnqueueCheck(p))
        /\ WF_vars(FlushRead(p))
        /\ SF_vars(SendAttempt(p, 200))
        /\ WF_vars(NextBatch(p))
        /\ WF_vars(RemoveRead(p))
        /\ WF_vars(RemoveWrite(p))
        /\ WF_vars(FlushEnd(p))

FairSpec == Init /\ [][NextLive]_vars /\ Fairness

(***************************************************************************)
(* The flushes of a running process whose store holds the events enqueued  *)
(* so far, up to its shutdown.  The process does not die, every started    *)
(* storage operation completes and every request returns, with a response  *)
(* or a failure, whatever it is.                                           *)
(***************************************************************************)
InitBounded ==
    /\ phase = "up"
    /\ flushTimer = TRUE
    /\ isFlushing = FALSE
    /\ \E n \in 0..MaxEvents :
          /\ store = [i \in 1..n |-> i]
          /\ nextId = n + 1
          /\ written = 1..n
    /\ procs = [p \in Procs |-> Idle]
    /\ acked = {}
    /\ calc = NoCalc
    /\ size = QueuedSizes
    /\ tx = NoTx
    /\ sdk = NoSdk

NextBounded ==
    \/ \E p \in Procs : Tick(p)
    \/ \E p \in Procs : Shutdown(p)
    \/ \E p \in Procs : FlushRead(p)
    \/ \E p \in Procs, status \in Statuses : SendAttempt(p, status)
    \/ \E p \in Procs : NextBatch(p)
    \/ \E p \in Procs : RemoveRead(p)
    \/ \E p \in Procs : RemoveWrite(p)
    \/ \E p \in Procs : FlushEnd(p)

RequestsReturn ==
    \A p \in Procs :
        /\ WF_vars(FlushRead(p))
        /\ WF_vars(\E status \in Statuses : SendAttempt(p, status))
        /\ WF_vars(NextBatch(p))
        /\ WF_vars(RemoveRead(p))
        /\ WF_vars(RemoveWrite(p))
        /\ WF_vars(FlushEnd(p))

BoundedSpec == InitBounded /\ [][NextBounded]_vars /\ RequestsReturn

(***************************************************************************)
(* The queue of a running process over a store whose reads may fail.       *)
(* Storage.getQueuedEvents catches the fault of AsyncStorage.getItem and   *)
(* returns the empty list; readFault is history: the read of the call      *)
(* chain has failed.                                                       *)
(***************************************************************************)
getQueuedEvents(data, fault) == IF fault THEN <<>> ELSE data

\* enqueue(): Storage.addEventToQueue up to its read.
EnqueueRead(p, fault) ==
    /\ phase \in {"up", "stopping"}
    /\ FreeProc(p)
    /\ nextId <= MaxEvents
    /\ procs' = [procs EXCEPT ![p] =
                    [Idle EXCEPT !.pc = "add_write", !.op = "enqueue",
                                 !.event = nextId,
                                 !.snap = getQueuedEvents(store, fault),
                                 !.readFault = fault]]
    /\ nextId' = nextId + 1
    /\ UNCHANGED <<phase, flushTimer, isFlushing, store, written, acked, calc, size, tx, sdk>>

\* flush(): the entry read; a failed read is an empty queue to flush().
FlushEntryRead(p, fault) ==
    /\ procs[p].pc = "fl_read"
    /\ IF Len(getQueuedEvents(store, fault)) = 0
       THEN FlushReturn(p)
       ELSE /\ procs' = [procs EXCEPT ![p].events = store, ![p].pc = "send", ![p].bi = 1]
            /\ UNCHANGED <<phase, isFlushing>>
    /\ UNCHANGED <<flushTimer, store, nextId, written, acked, calc, size, tx, sdk>>

\* flush(): Storage.removeEventsFromQueue up to its read.
RemovalRead(p, fault) ==
    /\ procs[p].pc = "rm_read"
    /\ procs' = [procs EXCEPT ![p].snap = getQueuedEvents(store, fault),
                              ![p].readFault = fault, ![p].pc = "rm_write"]
    /\ UNCHANGED <<phase, flushTimer, isFlushing, store, nextId, written, acked, calc, size, tx, sdk>>

NextFaults ==
    \/ \E p \in Procs : Tick(p)
    \/ \E p \in Procs, fault \in BOOLEAN : EnqueueRead(p, fault)
    \/ \E p \in Procs : AddWrite(p)
    \/ \E p \in Procs : EnqueueCheck(p)
    \/ \E p \in Procs, fault \in BOOLEAN : FlushEntryRead(p, fault)
    \/ \E p \in Procs, status \in Statuses : SendAttempt(p, status)
    \/ \E p \in Procs : NextBatch(p)
    \/ \E p \in Procs, fault \in BOOLEAN : RemovalRead(p, fault)
    \/ \E p \in Procs : RemoveWrite(p)
    \/ \E p \in Procs : FlushEnd(p)

SpecFaults == InitBounded /\ [][NextFaults]_vars


(***************************************************************************)
(* Properties of the queue, the storage and the transport.                 *)
(***************************************************************************)
\* The batch the call chain p is sending.
CurrentBatch(p) == createBatches(procs[p].events)[procs[p].bi]

\* p is inside enqueue(), before its storage write or before its length check.
EnqueueInProgress(p) == procs[p].pc \in {"add_write", "enq_len"}

\* The step is the death of the process.
CrashStep == phase # "down" /\ phase' = "down"

C3_EnqueueNeverDrops ==
    (phase = "up" /\ (\A p \in Procs : ~EnqueueInProgress(p)) /\ acked = {}) =>
        written \subseteq Range(store)

\* A flush() call of p that finds a flush in progress: the capacity trigger of
\* enqueue, or the call shutdown makes after stopping the timer.
SkippedFlushCall(p) ==
    /\ isFlushing
    /\ ~CrashStep
    /\ \/ /\ procs[p].pc = "enq_len"
          /\ Len(store) >= maxQueueSize
          /\ procs'[p] # procs[p]
       \/ /\ FreeProc(p)
          /\ phase = "up"
          /\ phase' \in {"stopping", "shut"}

\* C4: idempotent flush.  A flush() call made while a flush is in progress
\* returns at once: the caller's chain is over, the persisted queue, the guard,
\* the acknowledgments and every other call chain (the running flush, its
\* reads and its requests) are as before; and the guard of a running flush is
\* cleared only by the end of that flush or by the death of the process.
C4_IdempotentFlush ==
    [][/\ \A p \in Procs :
              SkippedFlushCall(p) =>
                  /\ procs'[p] = Idle
                  /\ store' = store
                  /\ isFlushing' = isFlushing
                  /\ acked' = acked
                  /\ \A q \in Procs \ {p} : procs'[q] = procs[q]
       /\ (isFlushing /\ ~isFlushing') =>
              \/ CrashStep
              \/ \E p \in Procs : InFlushBody(p) /\ procs'[p].pc = "idle"]_vars

\* shutdown() has called flush() while another flush was running: shutdown has
\* returned, the running flush goes on and its guard is still set.
C4_Witness ==
    /\ phase = "shut"
    /\ isFlushing
    /\ \E p \in Procs : InFlushBody(p) /\ procs[p].op # "shutdown"

\* C5: flush mutual exclusion.  At most one call chain is inside the body of
\* flush() (from the entry up to the end of the call), and the guard is set
\* whenever one is.
C5_FlushMutualExclusion ==
    /\ Cardinality({p \in Procs : InFlushBody(p)}) <= 1
    /\ (\E p \in Procs : InFlushBody(p)) => isFlushing

\* A flush is between its entry read and its removal write while another call
\* chain is about to call flush() from the capacity trigger of enqueue.
C5_Witness ==
    \E p, q \in Procs :
        /\ p # q
        /\ procs[p].pc \in {"send", "batch_done", "rm_read", "rm_write"}
        /\ procs[q].pc = "enq_len"
        /\ Len(store) >= maxQueueSize

\* C6: crash durability.  After the death of the process every event whose
\* storage write completed and that was not acknowledged is in the persisted
\* queue, and the flush of initialize() hands it to the transport.
C6_CrashDurability ==
    /\ phase = "down" => (written \ acked) \subseteq Range(store)
    /\ \A p \in Procs :
          (procs[p].op = "init" /\ procs[p].pc = "send") =>
              (written \ acked) \subseteq Range(procs[p].events)

\* C7: client-error short-circuit.  When the first fetch of a batch is answered
\* 4xx, sendBatchWithRetry is over for that batch (one request, no retry), and
\* no id of a batch answered 4xx is among the ids sendBatch returns.
C7_ClientErrorShortCircuit ==
    \A p \in Procs :
        /\ (procs[p].last = "4xx" /\ procs[p].requests = 1) =>
              procs[p].pc = "batch_done"
        /\ procs[p].rejected \cap Range(procs[p].sentEventIds) = {}

\* A batch was answered 4xx on its first request and sendBatch has more than
\* one batch to send.
C7_Witness ==
    \E p \in Procs :
        /\ procs[p].pc = "batch_done"
        /\ procs[p].last = "4xx"
        /\ procs[p].requests = 1
        /\ Len(createBatches(procs[p].events)) > 1

\* C8: a batch answered 4xx is dropped.  When flush() has finished its removal
\* step, no event of a batch that was answered 4xx in this flush is in the
\* persisted queue any more (so no later flush sends it again).
C8_ClientErrorBatchDropped ==
    \A p \in Procs :
        procs[p].pc = "remaining" => procs[p].rejected \cap Range(store) = {}

\* C9: retry budget.  At most maxRetries requests per batch; a further request
\* is issued exactly after an outcome that is neither 2xx nor 4xx while fewer
\* than maxRetries were issued; a 2xx ends the batch with its ids returned;
\* maxRetries requests without 2xx end it with none of its ids returned, and
\* sendBatch goes on (nothing is thrown).
C9_RetryBudget ==
    \A p \in Procs :
        /\ procs[p].requests <= maxRetries
        /\ procs[p].pc = "send" =>
              /\ procs[p].last \in {"none", "other"}
              /\ procs[p].requests = procs[p].attempt
              /\ procs[p].requests < maxRetries
        /\ procs[p].pc = "batch_done" =>
              /\ procs[p].last = "2xx" =>
                    Range(CurrentBatch(p)) \subseteq Range(procs[p].sentEventIds)
              /\ procs[p].last = "other" =>
                    /\ procs[p].requests = maxRetries
                    /\ Range(CurrentBatch(p)) \cap Range(procs[p].sentEventIds) = {}

\* A batch has used its whole budget on retryable outcomes.
C9_Witness ==
    \E p \in Procs :
        /\ procs[p].pc = "batch_done"
        /\ procs[p].last = "other"
        /\ procs[p].requests = maxRetries


\* C2: at-least-once delivery.  Every event whose storage write completed is
\* eventually in a batch answered 2xx.  (The claim's other outcome, the event
\* dropped because of a 4xx, is no operation of the code: nothing removes an
\* event from the persisted queue but the acknowledgment of its batch.)
C2_AtLeastOnce ==
    \A e \in EventIds : (e \in written) ~> (e \in acked)

\* C10: backoff.  The delay is min(initialDelay * multiplier^attempt, maxDelay):
\* it never exceeds maxDelay, it does not decrease from one attempt to the
\* next, and with the delays of RETRY_CONFIG the attempts 0, 1, 2 wait
\* 1000, 2000, 4000.
C10_Backoff ==
    calc.delay # -1 =>
        LET raw == calc.initialDelay * Pow(calc.multiplier, calc.attempt)
        IN  /\ calc.delay = IF raw < calc.maxDelay THEN raw ELSE calc.maxDelay
            /\ calc.delay <= calc.maxDelay
            /\ calc.prev # -1 => calc.prev <= calc.delay
            /\ (/\ calc.initialDelay = 1000
                /\ calc.multiplier = 2
                /\ calc.maxDelay = 32000) =>
                   /\ calc.attempt = 0 => calc.delay = 1000
                   /\ calc.attempt = 1 => calc.delay = 2000
                   /\ calc.attempt = 2 => calc.delay = 4000

\* The retry loop of RETRY_CONFIG has reached attempt 2 after attempt 1.
C10_Witness ==
    /\ calc.initialDelay = initialDelay
    /\ calc.maxDelay = maxDelay
    /\ calc.multiplier = backoffMultiplier
    /\ calc.attempt = 2
    /\ calc.prev = 2000
    /\ calc.delay = 4000

(***************************************************************************)
(* Properties of createBatches and of sendBatch.                           *)
(***************************************************************************)
RECURSIVE SumSize(_)
SumSize(batch) == IF batch = <<>> THEN 0 ELSE getObjectSize(Head(batch)) + SumSize(Tail(batch))

\* Every event is small enough for a full batch to stay under the byte ceiling.
WellUnderCeiling(events) ==
    \A e \in Range(events) : getObjectSize(e) * MAX_EVENTS_PER_BATCH <= MAX_BATCH_SIZE

\* ceil(n / d)
CeilDiv(n, d) == (n + d - 1) \div d

\* C11: batch ceilings.  Every batch createBatches produces is non-empty, has
\* at most MAX_EVENTS_PER_BATCH events, and its summed size is at most
\* MAX_BATCH_SIZE unless it is a single event; an event larger than
\* MAX_BATCH_SIZE is a batch of its own (it is not dropped).
C11_BatchCeilings ==
    tx.pc \in {"send", "returned"} =>
        /\ \A i \in 1..Len(tx.batches) :
              /\ Len(tx.batches[i]) >= 1
              /\ Len(tx.batches[i]) <= MAX_EVENTS_PER_BATCH
              /\ SumSize(tx.batches[i]) <= MAX_BATCH_SIZE \/ Len(tx.batches[i]) = 1
        /\ \A e \in Range(tx.events) :
              getObjectSize(e) > MAX_BATCH_SIZE =>
                  \E i \in 1..Len(tx.batches) : tx.batches[i] = <<e>>

\* createBatches has split a list with an oversized event: that event is a
\* batch of its own, next to a batch of several events.
C11_Witness ==
    /\ tx.pc = "send"
    /\ \E i, j \in 1..Len(tx.batches) :
          /\ Len(tx.batches[i]) = 1
          /\ getObjectSize(tx.batches[i][1]) > MAX_BATCH_SIZE
          /\ Len(tx.batches[j]) > 1

\* C12: greedy batching count.  When every request is answered 2xx and every
\* event is well under the byte ceiling, sendBatch on n events issues exactly
\* ceil(n / MAX_EVENTS_PER_BATCH) requests, one per batch, and every batch but
\* the last holds exactly MAX_EVENTS_PER_BATCH events.
C12_GreedyBatchingCount ==
    (tx.pc = "returned" /\ ~tx.failed /\ WellUnderCeiling(tx.events)) =>
        /\ tx.requests = CeilDiv(Len(tx.events), MAX_EVENTS_PER_BATCH)
        /\ Len(tx.batches) = tx.requests
        /\ \A i \in 1..(Len(tx.batches) - 1) :
              Len(tx.batches[i]) = MAX_EVENTS_PER_BATCH
        /\ Len(tx.batches) > 0 =>
              Len(tx.batches[Len(tx.batches)]) =
                  Len(tx.events) - (Len(tx.batches) - 1) * MAX_EVENTS_PER_BATCH

\* sendBatch has returned from a list of small events that needed more than
\* one batch, the last batch not full, every request answered 2xx.
C12_Witness ==
    /\ tx.pc = "returned"
    /\ ~tx.failed
    /\ WellUnderCeiling(tx.events)
    /\ tx.requests > 1
    /\ Len(tx.batches[Len(tx.batches)]) < MAX_EVENTS_PER_BATCH

\* C13: the result of sendBatch.  A request is issued for every batch, whatever
\* the earlier batches were answered, and the ids returned are exactly the ids
\* of the batches answered 2xx: ids of the input, none of a batch that failed
\* or was answered 4xx.
C13_SendBatchResult ==
    /\ Range(tx.sentEventIds) = tx.okIds
    /\ tx.okIds \subseteq Range(tx.events)
    /\ tx.pc = "returned" =>
          /\ tx.tried = 1..Len(tx.batches)
          /\ Len(tx.sentEventIds) = Cardinality(tx.okIds)

\* sendBatch has returned the ids of a later batch after an earlier batch was
\* not acknowledged.
C13_Witness ==
    /\ tx.pc = "returned"
    /\ Len(tx.batches) > 1
    /\ Range(tx.batches[1]) \cap tx.okIds = {}
    /\ tx.okIds # {}


(***************************************************************************)
(* The client and the session manager.                                     *)
(***************************************************************************)
\* The number of times the callback kind has fired for the session.
Fired(log, kind, sessionId) ==
    Cardinality({i \in 1..Len(log) : log[i].kind = kind /\ log[i].sessionId = sessionId})

\* A step that is a call of track() by the application which passes the guards
\* of track() and finds a session.
TrackCall ==
    /\ sdk'.calls = sdk.calls + 1
    /\ sdk'.call = "track"
    /\ TrackGuard(sdk)
    /\ sdk.currentSession # NoSession

\* C14: when updateActivity() runs and the timeout has passed since the last
\* activity of the current session, the end callback fires once for the old
\* session id and the start callback fires once for a new, different id;
\* otherwise no callback fires, the session keeps its id and its start time,
\* and lastActivityTime becomes now and is persisted.
C14_SessionRenewal ==
    [][TrackCall =>
         LET old == sdk.currentSession
         IN  IF sdk.now - old.lastActivityTime >= sessionTimeout
             THEN /\ Fired(sdk'.log, "end", old.sessionId)
                        = Fired(sdk.log, "end", old.sessionId) + 1
                  /\ Len(sdk'.log) = Len(sdk.log) + 1
                  /\ sdk'.currentSession.sessionId \notin {0, old.sessionId}
             ELSE /\ sdk'.log = sdk.log
                  /\ sdk'.currentSession = [old EXCEPT !.lastActivityTime = sdk.now]
                  /\ sdk'.disk.session = sdk'.currentSession]_vars


\* The number of call chains that wait at pc.
Waiting(s, pc) == Cardinality({i \in 1..Len(s.tasks) : s.tasks[i].pc = pc})

\* A step in which SessionManager.initialize() goes on with the record read.
InitializeStep(i) ==
    /\ Runnable(i)
    /\ sdk.tasks[i].pc = "si_read"
    /\ Waiting(sdk', "si_read") < Waiting(sdk, "si_read")

\* C15: initialize() starts a new session when no record is persisted (or the
\* read fails), resumes a persisted session whose last activity is less than
\* the timeout ago, and for an expired one fires the end callback with
\* duration lastActivityTime - startTime and starts a new session; in every
\* case a session is active and persisted afterwards.
C15_SessionInitialization ==
    [][\A i \in TaskIndexes : InitializeStep(i) =>
         LET saved == sdk.tasks[i].saved
             new == sdk'.currentSession
             started == /\ new.sessionId >= sdk.nextSessionId
                        /\ new.startTime = sdk.now
                        /\ new.lastActivityTime = sdk.now
         IN  /\ new # NoSession
             /\ sdk'.disk.session = new
             /\ IF saved = NoSession
                THEN started /\ sdk'.log = sdk.log
                ELSE IF sdk.now - saved.lastActivityTime < sessionTimeout
                THEN /\ new = [saved EXCEPT !.lastActivityTime = sdk.now]
                     /\ sdk'.log = sdk.log
                ELSE /\ started
                     /\ Len(sdk'.log) = Len(sdk.log) + 1
                     /\ SubSeq(sdk'.log, 1, Len(sdk.log)) = sdk.log
                     /\ LET e == sdk'.log[Len(sdk'.log)]
                        IN  /\ e.kind = "end"
                            /\ e.sessionId = saved.sessionId
                            /\ e.duration = saved.lastActivityTime - saved.startTime]_vars

\* initialize() has ended an expired session of duration 1 and started a new one.
C15_Witness ==
    /\ sdk.log # <<>>
    /\ sdk.log[1] = [kind |-> "end", sessionId |-> OldSession.sessionId,
                     duration |-> 1, tracked |-> FALSE]
    /\ sdk.currentSession.sessionId > OldSession.sessionId
    /\ sdk.currentSession.startTime = sdk.now


\* C16: an event tracked while the current session is expired carries the id
\* of a session started by the renewal, never the id of the expired session.
C16_StampingOrder ==
    \A i \in TaskIndexes :
       LET t == sdk.tasks[i]
       IN  (t.pc = "add_write" /\ t.expired # 0) =>
              /\ t.event.sessionId # t.expired
              /\ t.event.sessionId >= t.sessionId
              /\ Fired(sdk.log, "end", t.expired) >= 1

\* The event of a track() call of the application that found session 2 expired
\* is created with the id of a later session.
C16_Witness ==
    \E i \in TaskIndexes :
       /\ sdk.tasks[i].pc = "add_write"
       /\ sdk.tasks[i].name = "custom"
       /\ sdk.tasks[i].expired = 2
       /\ sdk.tasks[i].event.sessionId > 2


\* C17: every session start and every session end, those of initialization
\* included, results in the Session Started or Session Ended event being
\* tracked: the track() call of the callback passes the guards of track().
C17_SessionAutoEvents ==
    \A i \in 1..Len(sdk.log) : sdk.log[i].tracked


\* C18: a track() call made after optOut() and before any optIn(), or while
\* the client is not initialized, is a no-op: the persisted queue, the session
\* record, the local counters and the pending work are as before the call.
C18_OptOutGating ==
    [][(sdk'.calls = sdk.calls + 1 /\ sdk'.call = "track"
          /\ (sdk.optedOut \/ ~sdk.isInitialized))
         => sdk' = Called(sdk, "track")]_vars


\* A step in which a track() chain creates its event.
CreatesEvent(i) ==
    /\ Runnable(i)
    /\ sdk.tasks[i].pc = "ua_done"
    /\ sdk.tasks[i].op = "track"
    /\ sdk'.nextEventId = sdk.nextEventId + 1

\* C19: the event of a track() call made after optIn() has returned is appended
\* to the persisted queue, whichever way the client came to be opted out.
C19_OptInResumes ==
    [][\A i \in TaskIndexes : (CreatesEvent(i) /\ sdk.tasks[i].resumed) =>
          \E j \in 1..Len(sdk'.tasks) :
             /\ sdk'.tasks[j].pc = "add_write"
             /\ sdk'.tasks[j].event.id = sdk.nextEventId]_vars


\* Every event of the persisted queue q is in q2 with the same fields.
Kept(q, q2) == \A k \in 1..Len(q) : \E m \in 1..Len(q2) : q2[m] = q[k]

\* A step in which the chain at position i, which waits at pc, goes on.
ChainStep(i, pc) ==
    /\ Runnable(i)
    /\ sdk.tasks[i].pc = pc
    /\ Waiting(sdk', pc) < Waiting(sdk, pc)

\* C20: identify, reset, optOut and optIn never remove an event from the
\* persisted queue and never change the userId, anonymousId or sessionId of
\* an event in it: every step of these calls, the enqueue of the User
\* Identified event included, keeps every queued event as it is.
C20_QueuedEventsFrozen ==
    [][/\ (sdk'.calls = sdk.calls + 1
             /\ sdk'.call \in {"identify", "reset", "optOut", "optIn"})
          => sdk'.disk.queue = sdk.disk.queue
       /\ \A i \in TaskIndexes :
            \A pc \in {"id_saved", "rs_user", "rs_session", "oo_saved", "oi_saved"} :
               ChainStep(i, pc) => sdk'.disk.queue = sdk.disk.queue
       /\ \A i \in TaskIndexes :
            (ChainStep(i, "add_write") /\ sdk.tasks[i].name = "User Identified")
               => Kept(sdk.disk.queue, sdk'.disk.queue)]_vars


(***************************************************************************)
(* The identity operations, deleteUser and the validation of track().      *)
(***************************************************************************)
\* The number of pending track() chains for the event name.
Tracking(s, name) ==
    Cardinality({i \in 1..Len(s.tasks) : s.tasks[i].op = "track" /\ s.tasks[i].name = name})

\* A step that is a call of identify() on an initialized client that is not
\* opted out.
IdentifyCall ==
    /\ sdk'.calls = sdk.calls + 1
    /\ sdk'.call = "identify"
    /\ sdk.isInitialized
    /\ ~sdk.isOptedOut

\* identify(u), step by step: the call stores u in memory and in the store,
\* alone(t) tells for which of its chains the later steps are required to
\* track one User Identified event with previousUserId and userId = u.
Identifies(alone(_)) ==
    /\ IdentifyCall =>
          LET t == sdk'.tasks[Len(sdk'.tasks)]
          IN  /\ t.op = "identify"
              /\ sdk'.userId = t.properties.identified
              /\ sdk'.disk.userId = t.properties.identified
              /\ t.properties.previousUserId =
                    IF sdk.userId # "" THEN sdk.userId ELSE sdk.anonymousId
    /\ \A i \in TaskIndexes :
          (ChainStep(i, "id_saved") /\ alone(sdk.tasks[i])) =>
             /\ Tracking(sdk', "User Identified") = Tracking(sdk, "User Identified") + 1
             /\ \E j \in 1..Len(sdk'.tasks) :
                   /\ sdk'.tasks[j].op = "track"
                   /\ sdk'.tasks[j].properties = sdk.tasks[i].properties
    /\ \A i \in TaskIndexes :
          (CreatesEvent(i) /\ sdk.tasks[i].name = "User Identified" /\ alone(sdk.tasks[i])) =>
             /\ sdk'.event.name = "User Identified"
             /\ sdk'.event.userId = sdk.tasks[i].properties.identified
             /\ sdk'.event.properties.previousUserId = sdk.tasks[i].properties.previousUserId
             /\ Tracking(sdk', "User Identified") = Tracking(sdk, "User Identified")
                   - (IF sdk.queue THEN 0 ELSE 1)

ResetCall ==
    /\ sdk'.calls = sdk.calls + 1
    /\ sdk'.call = "reset"
    /\ sdk.isInitialized

\* A step in which reset() returns: its new session has been persisted and
\* the start callback has been called.
ResetReturns(i) ==
    /\ Runnable(i)
    /\ sdk.tasks[i].pc = "sn_saved"
    /\ sdk.tasks[i].op = "reset"
    /\ Waiting(sdk', "sn_saved") < Waiting(sdk, "sn_saved")

\* reset(), step by step, for the chains of which alone(t) holds.
Resets(alone(_)) ==
    /\ ResetCall => (sdk'.userId = "" /\ sdk'.disk.userId = "")
    /\ \A i \in TaskIndexes :
         (ChainStep(i, "rs_user") /\ alone(sdk.tasks[i])
             /\ sdk.currentSession # NoSession) =>
            LET old == sdk.currentSession.sessionId
            IN  /\ Fired(sdk'.log, "end", old) = Fired(sdk.log, "end", old) + 1
                /\ Len(sdk'.log) = Len(sdk.log) + 1
                /\ sdk'.disk.session = NoSession
    /\ \A i \in TaskIndexes :
         (ChainStep(i, "rs_session") /\ alone(sdk.tasks[i])) =>
            /\ sdk'.currentSession.sessionId \notin {0, sdk.currentSession.sessionId}
            /\ sdk'.disk.session = sdk'.currentSession
    /\ \A i \in TaskIndexes :
         (ResetReturns(i) /\ alone(sdk.tasks[i])) =>
            /\ sdk'.currentSession # NoSession
            /\ sdk'.disk.session = sdk'.currentSession

\* C22: reset() clears the user id in memory and in the store; the end
\* callback fires once for the current session and the persisted record is
\* cleared; then a new session with a different id is started and persisted,
\* and when reset() returns the active session is the persisted record.  The
\* steps of a reset() are taken with no other call of the API since its own.
C22_Reset ==
    [][Resets(LAMBDA t : t.properties.calls = sdk.calls)]_vars


\* A step in which a deleteUser() issues Storage.clearAll(); the store is
\* then as deleteUser() finds it when it completes, since the storage serves
\* every later operation after this one.
ClearsAll ==
    Waiting(sdk', "du_cleared") > Waiting(sdk, "du_cleared")

InvalidNames == {"", "bad!", "long"}

\* The queue, the local counters and the enqueues under way are the same
\* after the step.
NothingAdded ==
    /\ sdk'.disk.queue = sdk.disk.queue
    /\ sdk'.sessionAnalytics = sdk.sessionAnalytics
    /\ Waiting(sdk', "add_write") = Waiting(sdk, "add_write")

\* C24: a track() call with an invalid event name returns at once, and one
\* whose created event is larger than MAX_EVENT_SIZE returns after the
\* event is created; neither adds anything to the persisted queue or to the
\* local session counters.
C24_ValidationFaults ==
    [][/\ (\E name \in InvalidNames : TrackEvent(name, 1)) =>
             /\ NothingAdded
             /\ sdk'.tasks = sdk.tasks
             /\ sdk'.event = sdk.event
       /\ \A i \in TaskIndexes :
            (CreatesEvent(i) /\ sdk.tasks[i].properties.size > MAX_EVENT_SIZE) =>
               /\ NothingAdded
               /\ Len(sdk'.tasks) = Len(sdk.tasks) - 1]_vars

\* An event larger than MAX_EVENT_SIZE has been created by a client with a
\* queue and local counters, and track() has dropped it and returned.
C24_Witness ==
    /\ sdk.event.properties.size > MAX_EVENT_SIZE
    /\ sdk.queue
    /\ sdk.sessionAnalytics >= 0
    /\ sdk.tasks = <<>>
    /\ \A k \in 1..Len(sdk.disk.queue) : sdk.disk.queue[k].id # sdk.event.id


\* C25: the anonymous id, once persisted, keeps its value through every
\* operation (init of a later process, reset, optOut, optIn, deleteUser), and
\* every event the client creates carries the persisted anonymous id, which
\* is not empty.
C25_AnonymousIdStability ==
    [][/\ sdk.disk.anonymousId # "" => sdk'.disk.anonymousId = sdk.disk.anonymousId
       /\ \A i \in TaskIndexes :
            CreatesEvent(i) =>
               /\ sdk'.event.anonymousId # ""
               /\ sdk'.event.anonymousId = sdk'.disk.anonymousId]_vars


(***************************************************************************)
(* The timer, shutdown and the capacity trigger of the queue.              *)
(***************************************************************************)
\* C26: shutdown() stops the timer and then calls flush() once before it
\* returns: from the call of shutdown() on the timer is stopped, so that no
\* tick calls flush(), and until shutdown() returns its own flush is under
\* way.
C26_ShutdownOrdering ==
    /\ phase \in {"stopping", "shut"} => ~flushTimer
    /\ \A p \in Procs : procs[p].op = "shutdown" =>
          /\ phase = "stopping"
          /\ InFlushBody(p)
          /\ isFlushing
    /\ phase = "stopping" =>
          Cardinality({p \in Procs : procs[p].op = "shutdown"}) = 1

\* The final flush of shutdown() is sending the persisted events, the timer is
\* stopped.
C26_Witness ==
    /\ phase = "stopping"
    /\ ~flushTimer
    /\ \E p \in Procs :
          /\ procs[p].op = "shutdown"
          /\ procs[p].pc = "send"
          /\ procs[p].events # <<>>


\* C27: from the initialization of the queue to its shutdown the timer runs,
\* whatever the flushes so far have met (a collector that rejects or does not
\* answer, a queue that could not be sent): every tick calls flush(), and a
\* flush that has ended, failed or not, has reset the guard, so that the
\* flush() of a later tick is not turned away.
C27_PeriodicFlush ==
    /\ phase \in {"init", "up"} => flushTimer
    /\ isFlushing => \E p \in Procs : InFlushBody(p)

\* The flush of a tick has sent nothing of the queue it read and is about to
\* return; the timer runs and a call chain is free for the next tick.
C27_Witness ==
    /\ phase = "up"
    /\ flushTimer
    /\ \E p, q \in Procs :
          /\ procs[p].op = "flush"
          /\ procs[p].pc = "remaining"
          /\ procs[p].events # <<>>
          /\ procs[p].sentEventIds = <<>>
          /\ procs[q].pc = "idle"


\* A step in which the enqueue() of p reads the queue length back and goes on.
LengthCheck(p) ==
    /\ procs[p].pc = "enq_len"
    /\ procs'[p] # procs[p]
    /\ ~CrashStep

\* C28: enqueue() reads the queue length back only after its write of the
\* event has completed, and calls flush() exactly when the length it reads is
\* at least maxQueueSize: the flush starts then, unless one is in progress;
\* below maxQueueSize enqueue() returns and no flush starts.
C28_CapacityTrigger ==
    [][\A p \in Procs : LengthCheck(p) =>
          /\ procs[p].event \in written
          /\ store' = store
          /\ IF Len(store) >= maxQueueSize /\ ~isFlushing
             THEN /\ procs'[p].pc = "fl_read"
                  /\ procs'[p].op = "enqueue"
                  /\ isFlushing'
             ELSE /\ procs'[p] = Idle
                  /\ isFlushing' = isFlushing]_vars

\* The enqueue() that brought the queue to maxQueueSize has called flush().
C28_Witness ==
    \E p \in Procs :
        /\ procs[p].op = "enqueue"
        /\ procs[p].pc = "fl_read"
        /\ Len(store) = maxQueueSize
        /\ Range(store) \subseteq written


\* C29: the flush triggered by the capacity test is not waited for: no call
\* of enqueue() is still to return while the flush it triggered sends its
\* batches, retries them or removes the acknowledged events.
C29_FireAndForget ==
    \A p \in Procs : procs[p].op = "enqueue" => procs[p].pc \notin AfterEntryRead


\* The removal step of the flush of p writes the queue back.
RemovalWrite(p) ==
    /\ procs[p].pc = "rm_write"
    /\ procs'[p].pc = "remaining"

\* C30: an event enqueued while a flush is in progress, between the read and
\* the write of its removal step included, is not lost to the flush: the
\* write of the removal step keeps every persisted event other than the ones
\* the flush removes, which were acknowledged.
C30_EnqueueDuringFlush ==
    [][\A p \in Procs : RemovalWrite(p) =>
          /\ Range(procs[p].sentEventIds) \subseteq acked
          /\ Range(store) \ Range(procs[p].sentEventIds) \subseteq Range(store')]_vars


(***************************************************************************)
(* The end of a flush, its length, and the quiescence of shutdown.         *)
(***************************************************************************)
\* A step in which the flush execution of p ends: on an empty queue, or after
\* the batches were sent, acknowledged or not.
FlushEnds(p) ==
    /\ InFlushBody(p)
    /\ procs'[p].pc = "idle"
    /\ ~CrashStep

\* C31: whenever a flush execution ends, on an empty queue, with all, some or
\* none of its batches acknowledged, or after requests that failed,
\* isFlushing is false again.
C31_GuardReleased ==
    [][\A p \in Procs : FlushEnds(p) => ~isFlushing']_vars

\* A flush has ended with nothing acknowledged and events still persisted;
\* the guard is released and the timer runs.
C31_Witness ==
    /\ phase = "up"
    /\ flushTimer
    /\ ~isFlushing
    /\ \A p \in Procs : procs[p].pc = "idle"
    /\ store # <<>>
    /\ acked = {}
    /\ Len(store) >= maxQueueSize


(***************************************************************************)
(* createBatches as a partition of its input.                              *)
(***************************************************************************)
\* The batches, one after the other.
RECURSIVE Concat(_)
Concat(batches) ==
    IF batches = <<>> THEN <<>> ELSE Head(batches) \o Concat(Tail(batches))

\* C32: the batches createBatches produces, concatenated in order, are the
\* input list: every event is in exactly one batch and the order is kept.
C32_BatchingIsPartition ==
    tx.pc \in {"send", "returned"} => Concat(tx.batches) = tx.events

\* createBatches has split a list of several events, one of them larger
\* than MAX_BATCH_SIZE, into more than one batch.
C32_Witness ==
    /\ tx.pc = "send"
    /\ Len(tx.batches) > 1
    /\ Len(tx.events) > Len(tx.batches)
    /\ \E e \in Range(tx.events) : getObjectSize(e) > MAX_BATCH_SIZE


\* C33: a flush issues at most maxRetries requests for each of its batches,
\* one batch after the other, so at most (number of batches) x maxRetries in
\* all; and when every request returns, the flush ends and releases the
\* guard, and a shutdown() that waits for it returns.
C33_BoundedFlush ==
    /\ [](\A p \in Procs :
            procs[p].pc \in {"send", "batch_done"} =>
               /\ procs[p].bi \in 1..Len(createBatches(procs[p].events))
               /\ procs[p].requests <= maxRetries
               /\ (procs[p].bi - 1) * maxRetries + procs[p].requests
                     <= Len(createBatches(procs[p].events)) * maxRetries)
    /\ \A p \in Procs :
          InFlushBody(p) ~> (procs[p].pc = "idle" /\ ~isFlushing)
    /\ (phase = "stopping") ~> (phase = "shut")

\* The last batch of the flush of shutdown() has used its whole budget without
\* an acknowledgment: (number of batches) x maxRetries requests at most.
C33_Witness ==
    \E p \in Procs :
        /\ procs[p].op = "shutdown"
        /\ procs[p].pc = "batch_done"
        /\ procs[p].bi = Len(createBatches(procs[p].events))
        /\ procs[p].bi > 1
        /\ procs[p].requests = maxRetries
        /\ procs[p].last = "other"


(***************************************************************************)
(* Session transitions: the order of write and callback, renewals.         *)
(***************************************************************************)
\* A step that starts at least one session.
StartsSession == sdk'.nextSessionId > sdk.nextSessionId

\* startNewSession, step by step; undisturbed(t) tells for which chains the
\* callback step is required to find the new session persisted.
StartsNewSession(undisturbed(_)) ==
    /\ StartsSession =>
          /\ sdk'.currentSession.startTime = sdk.now
          /\ sdk'.currentSession.lastActivityTime = sdk.now
          /\ sdk'.disk.session = sdk'.currentSession
    /\ \A id \in 1..sdk'.nextSessionId :
          Fired(sdk'.log, "start", id) > Fired(sdk.log, "start", id) =>
             /\ id < sdk.nextSessionId
             /\ \E i \in TaskIndexes :
                   ChainStep(i, "sn_saved") /\ sdk.tasks[i].sessionId = id
    /\ \A i \in TaskIndexes :
          (ChainStep(i, "sn_saved") /\ undisturbed(sdk.tasks[i])) =>
             /\ sdk.disk.session.sessionId = sdk.tasks[i].sessionId
             /\ Fired(sdk'.log, "start", sdk.tasks[i].sessionId)
                   = Fired(sdk.log, "start", sdk.tasks[i].sessionId) + 1

\* C34: startNewSession sets startTime = lastActivityTime = now and writes
\* the record to the store; the start callback of a session runs after that
\* write, when the persisted record is the session it is called for.  The
\* callbacks looked at are those of sessions started by a track() call, with
\* no other call of the API since.
C34_PersistedBeforeCallback ==
    [][StartsNewSession(LAMBDA t : t.started = sdk.calls /\ t.op = "track"
                                      /\ sdk.call = "track")]_vars


\* A session transition in which the callbacks throw: the end callback is
\* called once for the expired session old and its exception stays inside,
\* and a new session is active and persisted.
Transition(old) ==
    /\ sdk.callbacksThrow
    /\ Fired(sdk'.log, "end", old.sessionId) = Fired(sdk.log, "end", old.sessionId) + 1
    /\ Len(sdk'.log) = Len(sdk.log) + 1
    /\ ~sdk'.log[Len(sdk'.log)].tracked
    /\ sdk'.currentSession.sessionId \notin {0, old.sessionId}
    /\ sdk'.currentSession.startTime = sdk.now
    /\ sdk'.disk.session = sdk'.currentSession
    /\ Waiting(sdk', "sn_saved") = Waiting(sdk, "sn_saved") + 1

\* C35: when the session-end or the session-start callback throws, the
\* exception does not leave the session manager and the transition completes:
\* the expired session is ended, the new session is active and persisted, the
\* start callback is called for it and the call that made the transition goes
\* on after it.
C35_CallbackFaults ==
    [][/\ (TrackCall /\ SessionExpired(sdk.now, sdk.currentSession))
            => Transition(sdk.currentSession)
       /\ \A i \in TaskIndexes :
            (/\ InitializeStep(i)
             /\ sdk.tasks[i].saved # NoSession
             /\ SessionExpired(sdk.now, sdk.tasks[i].saved))
               => Transition(sdk.tasks[i].saved)
       /\ \A i \in TaskIndexes : ChainStep(i, "sn_saved") =>
            LET t == sdk.tasks[i]
            IN  /\ Fired(sdk'.log, "start", t.sessionId)
                      = Fired(sdk.log, "start", t.sessionId) + 1
                /\ ~sdk'.log[Len(sdk'.log)].tracked
                /\ sdk'.currentSession = sdk.currentSession
                /\ sdk'.disk.session = sdk.disk.session
                /\ t.op = "track"
                      => Waiting(sdk', "ua_done") = Waiting(sdk, "ua_done") + 1
                /\ t.op = "init"
                      => Len(sdk'.tasks) = Len(sdk.tasks)]_vars

\* Both callbacks have thrown for a renewal made by track(): the old session
\* is ended, the new one is the current and the persisted session, and the
\* event of the call is in the persisted queue with the new session id.
C35_Witness ==
    /\ sdk.callbacksThrow
    /\ \E k \in 1..Len(sdk.log) :
          /\ sdk.log[k].kind = "end"
          /\ k < Len(sdk.log)
          /\ sdk.log[k + 1].kind = "start"
          /\ sdk.log[k + 1].sessionId = sdk.currentSession.sessionId
          /\ sdk.log[k].sessionId # sdk.currentSession.sessionId
    /\ sdk.disk.session = sdk.currentSession
    /\ sdk.call = "track"
    /\ \E m \in 1..Len(sdk.disk.queue) :
          sdk.disk.queue[m].sessionId = sdk.currentSession.sessionId


\* The sessions whose end callback has fired.
Ended(s) == {id \in 1..s.nextSessionId : Fired(s.log, "end", id) > 0}

\* C36: whatever activity updates of track() calls and of foreground events
\* are interleaved, the end callback fires once for an expired session and one
\* new session is started for it: no session is ended twice, and the sessions
\* started since init() are as many as the sessions ended.
C36_OneRenewalPerExpiry ==
    /\ \A id \in 1..sdk.nextSessionId : Fired(sdk.log, "end", id) <= 1
    /\ sdk.nextSessionId - Running.nextSessionId = Cardinality(Ended(sdk))


\* C37: a track() call that finds the session expired ends it once and starts
\* one new session: the Session Ended event tracked by the end callback does
\* not find the same session expired again, and no callback of the step finds
\* the call stack exhausted by nested track() and updateActivity() calls.
C37_RenewalNotReentrant ==
    [][(TrackCall /\ SessionExpired(sdk.now, sdk.currentSession)) =>
         /\ Fired(sdk'.log, "end", sdk.currentSession.sessionId)
               = Fired(sdk.log, "end", sdk.currentSession.sessionId) + 1
         /\ sdk'.nextSessionId = sdk.nextSessionId + 1
         /\ \A k \in (Len(sdk.log) + 1)..Len(sdk'.log) : sdk'.log[k].tracked]_vars


\* The write of addEventToQueue or of removeEventsFromQueue by the chain p.
QueueWritten(p) ==
    /\ procs[p].pc \in {"add_write", "rm_write"}
    /\ procs'[p].pc # procs[p].pc

\* C38: a read of the persisted queue that fails, in enqueue or in the
\* removal step of flush, is not followed by a write that deletes persisted
\* events no 2xx response has acknowledged: the write of a chain whose read
\* has failed leaves every such event of the store in the store.
C38_StorageFaultsKeepQueue ==
    [][\A p \in Procs : (QueueWritten(p) /\ procs[p].readFault) =>
          \A e \in Range(store) : e \notin acked => e \in Range(store')]_vars


\* C39: the purge of deleteUser() does not remove the User Deletion Requested
\* event before a flush has sent it: when Storage.clearAll is issued, the
\* event is no longer waiting in the persisted queue.
C39_DeletionDelivered ==
    [][ClearsAll =>
          \A m \in 1..Len(sdk.disk.queue) : ~IsDeletion(sdk.disk.queue[m])]_vars


\* C40: when shutdown() has returned, no flush of the queue is executing,
\* so that no request is issued any more: no call chain is in the body of
\* flush(), whether a flush was in progress when shutdown() was called or not.
C40_ShutdownQuiescence ==
    phase = "shut" => \A p \in Procs : ~InFlushBody(p)

=============================================================================
